---- MODULE Spec2Model ----
(***************************************************************************)
(* LieLens front end: the enhanced script (backend discovery, analysis     *)
(* with graceful degradation, local demo synthesizer) and the original     *)
(* script.js (single fixed backend, no fallback).                          *)
(*                                                                         *)
(* Text is a sequence of one-character strings, so that trim, the regular  *)
(* expressions and substring are computed on characters.                   *)
(***************************************************************************)
EXTENDS Integers, Sequences, FiniteSets, TLC

\* ---------------------------------------------------------------- bounds
\* Most tokens a synthesizer input is put together from.
MaxTokens == 2
\* Most analysis calls the user lets be outstanding at once.
MaxInFlight == 2
\* Last reading of the wall clock (new Date()) the model lets a call see.
MaxClock == 1
\* Most notifications on screen at once.
MaxNotes == 2

\* ------------------------------------------------------------ the state
VARIABLES
    script,             \* "enhanced" or "basic": the script the page loads
    reach,              \* network: how each candidate answers GET /
    activeBackendUrl,   \* the resolved endpoint, or Null
    statusText,         \* backend status signal, text
    statusIcon,         \* backend status signal, icon class
    resolver,           \* where checkBackendConnection stands
    probed,             \* indices of the candidates a probe was sent to
    contentInput,       \* contentInput.value
    loading,            \* loadingOverlay shown
    resultsHidden,      \* resultsSection has class hidden
    errorHidden,        \* errorSection has class hidden
    errorMessage,       \* errorMessage.textContent
    dom,                \* what displayReport wrote into the results section
    notifications,      \* notification elements in the body, oldest first
    inflight,           \* POST /analyze calls not yet settled
    logging,            \* are the calls of getDemoAnalysis being recorded?
    synthLog,           \* what getDemoAnalysis was given and returned, if recorded
    last                \* the step just taken and what it did

\* ------------------------------------------------------------ characters
UpperLetters ==
    << "A","B","C","D","E","F","G","H","I","J","K","L","M",
       "N","O","P","Q","R","S","T","U","V","W","X","Y","Z" >>

LowerLetters ==
    << "a","b","c","d","e","f","g","h","i","j","k","l","m",
       "n","o","p","q","r","s","t","u","v","w","x","y","z" >>

\* [A-Z]
UpperSet == { UpperLetters[i] : i \in 1..Len(UpperLetters) }

IsUpper(c) == c \in UpperSet

LowerOf ==
    [ c \in UpperSet |->
        LowerLetters[CHOOSE i \in 1..Len(UpperLetters) : UpperLetters[i] = c] ]

\* Case folding of the /i flag: A-Z to a-z, every other character itself.
toLowerCase(c) == IF IsUpper(c) THEN LowerOf[c] ELSE c

\* White space removed by String.prototype.trim.
WhiteSpace == { " ", "\n", "\t" }

RECURSIVE trimStart(_)
trimStart(s) ==
    IF s # << >> /\ Head(s) \in WhiteSpace THEN trimStart(Tail(s)) ELSE s

RECURSIVE trimEnd(_)
trimEnd(s) ==
    IF s # << >> /\ s[Len(s)] \in WhiteSpace
    THEN trimEnd(SubSeq(s, 1, Len(s) - 1))
    ELSE s

\* Mutant of trim: the value is used as typed.
trimForgotten(s) == s

\* contentInput.value.trim()
trim(s) == trimEnd(trimStart(s))

\* s.substring(0, n)
substring0(s, n) == SubSeq(s, 1, IF Len(s) < n THEN Len(s) ELSE n)

\* s.includes(w): w starts at some position of s.
includes(s, w) ==
    \E i \in 1..(Len(s) - Len(w) + 1) : \A k \in 1..Len(w) : s[i + k - 1] = w[k]

\* ---------------------------------------------------- getDemoAnalysis
\* The alternatives of /breaking|shocking|secret|exclusive|banned|hidden|urgent/i
EmotionalWords ==
    << << "b","r","e","a","k","i","n","g" >>,
       << "s","h","o","c","k","i","n","g" >>,
       << "s","e","c","r","e","t" >>,
       << "e","x","c","l","u","s","i","v","e" >>,
       << "b","a","n","n","e","d" >>,
       << "h","i","d","d","e","n" >>,
       << "u","r","g","e","n","t" >> >>

\* One alternative matched at position i, letters compared case-folded.
WordAtFolded(s, i, w) ==
    /\ i + Len(w) - 1 <= Len(s)
    /\ \A k \in 1..Len(w) : toLowerCase(s[i + k - 1]) = w[k]

\* regex.test: some alternative matches at some position.
hasEmotionalWords(content) ==
    \E i \in 1..Len(content) :
        \E a \in 1..Len(EmotionalWords) : WordAtFolded(content, i, EmotionalWords[a])

\* Least length of the run /[A-Z]{4,}/ asks for.
CapsRunMin == 4

\* /[A-Z]{4,}/.test: CapsRunMin capitals in a row start at some position.
hasAllCaps(content) ==
    \E i \in 1..Len(content) :
        /\ i + CapsRunMin - 1 <= Len(content)
        /\ \A k \in 0..(CapsRunMin - 1) : IsUpper(content[i + k])

hasBang(content) == includes(content, << "!" >>)

hasURL(content) == includes(content, << "h","t","t","p" >>)

BaseScore == 30
EmotionalBonus == 25
AllCapsBonus == 20
BangBonus == 10
ShortLength == 100
ShortPenalty == 10
ScoreCap == 95
HighAbove == 70
MediumAbove == 50
ExampleLength == 100

\* Mutant of riskScoreOf: the penalty for a short text is left out.
riskScoreNoPenalty(contentLength, emotional, allCaps, bang) ==
    BaseScore
    + (IF emotional THEN EmotionalBonus ELSE 0)
    + (IF allCaps THEN AllCapsBonus ELSE 0)
    + (IF bang THEN BangBonus ELSE 0)

\* Mutant of riskScoreOf: a trigger word adds 40 instead of 25.
riskScoreBigBonus(contentLength, emotional, allCaps, bang) ==
    BaseScore
        + (IF emotional THEN 40 ELSE 0)
        + (IF allCaps THEN AllCapsBonus ELSE 0)
        + (IF bang THEN BangBonus ELSE 0)
        - (IF contentLength < ShortLength THEN ShortPenalty ELSE 0)

\* let riskScore = 30; ... the four adjustments, in the order of the code.
riskScoreOf(contentLength, emotional, allCaps, bang) ==
    LET s0 == BaseScore
        s1 == IF emotional THEN s0 + EmotionalBonus ELSE s0
        s2 == IF allCaps THEN s1 + AllCapsBonus ELSE s1
        s3 == IF bang THEN s2 + BangBonus ELSE s2
        s4 == IF contentLength < ShortLength THEN s3 - ShortPenalty ELSE s3
    IN  s4

riskLevelOf(riskScore) ==
    IF riskScore > HighAbove THEN "HIGH"
    ELSE IF riskScore > MediumAbove THEN "MEDIUM"
    ELSE "LOW"

\* Mutant of credibilityOf: the rating follows the HIGH boundary.
credibilityAtHigh(riskScore) ==
    IF riskScore > HighAbove THEN "QUESTIONABLE" ELSE "RELIABLE"

credibilityOf(riskScore) ==
    IF riskScore > HighAbove THEN "QUESTIONABLE"
    ELSE IF riskScore > MediumAbove THEN "QUESTIONABLE"
    ELSE "RELIABLE"

\* Mutant of shareDecisionOf: the decision follows the MEDIUM boundary.
shareDecisionAtMedium(riskScore) ==
    IF riskScore > MediumAbove THEN "AVOID_SHARING" ELSE "SHARE_WITH_CONTEXT"

shareDecisionOf(riskScore) ==
    IF riskScore > HighAbove THEN "AVOID_SHARING" ELSE "SHARE_WITH_CONTEXT"

immediateActionOf(riskScore) ==
    IF riskScore > HighAbove
    THEN "Exercise extreme caution - verify all claims before acting"
    ELSE "Proceed with normal fact-checking practices"

\* Math.min(riskScore, 95)
reportedScoreOf(riskScore) == IF riskScore < ScoreCap THEN riskScore ELSE ScoreCap

detectedTacticsOf(content, emotional) ==
    IF emotional
    THEN << [ tactic_name |-> "Emotional Manipulation",
              description |-> "Uses strong emotional language to bypass critical thinking",
              example_from_content |-> substring0(content, ExampleLength) \o << "..." >>,
              manipulation_type |-> "EMOTIONAL" ],
            [ tactic_name |-> "Urgency Creation",
              description |-> "Creates artificial time pressure to prompt immediate action",
              example_from_content |-> << "Act fast" >>,
              manipulation_type |-> "SOCIAL" ] >>
    ELSE << [ tactic_name |-> "Demo Analysis",
              description |-> "This is a demonstration of our analysis capabilities",
              example_from_content |-> << "Sample content analysis" >>,
              manipulation_type |-> "LOGICAL" ] >>

cognitiveBiases ==
    << [ bias_name |-> "Fear of Missing Out (FOMO)",
         explanation |-> "The tendency to feel anxiety about missing beneficial opportunities",
         how_its_exploited |-> "Content suggests exclusive or time-limited information",
         resistance_tip |-> "Ask yourself: What's the real urgency? Can I verify this independently?" ],
       [ bias_name |-> "Authority Bias",
         explanation |-> "Tendency to trust information from perceived authority figures",
         how_its_exploited |-> "References to 'scientists' or 'experts' without specific credentials",
         resistance_tip |-> "Check the actual credentials and affiliations of cited experts" ] >>

\* Mutant of factCheckFlagsOf: the flag is emitted whatever the content.
factCheckFlagsAlways(emotional) ==
    << [ claim |-> "Scientists are 'shocked' by this discovery",
         flag_reason |-> "Vague, unsupported claims about scientific consensus",
         verification_suggestion |-> "Look for peer-reviewed studies and specific researcher names" ] >>

factCheckFlagsOf(emotional) ==
    IF emotional
    THEN << [ claim |-> "Scientists are 'shocked' by this discovery",
              flag_reason |-> "Vague, unsupported claims about scientific consensus",
              verification_suggestion |-> "Look for peer-reviewed studies and specific researcher names" ] >>
    ELSE << >>

educationalInsightsOf(emotional) ==
    [ why_convincing |->
          IF emotional
          THEN "Uses emotional triggers and authority appeals to create trust and urgency"
          ELSE "Content appears straightforward without obvious manipulation",
      target_audience |-> "People seeking health solutions or exclusive information",
      psychological_appeal |-> "Combines fear, hope, and exclusivity to motivate action",
      critical_questions |->
          << "Who specifically are these 'scientists'?",
             "What evidence supports these claims?",
             "Why would this information be suppressed?",
             "What are the potential risks or side effects?" >>,
      verification_steps |->
          << "Search for peer-reviewed research on this topic",
             "Check multiple reputable health information sources",
             "Consult with healthcare professionals",
             "Look for potential conflicts of interest" >> ]

DemoConfidence == 75
DemoCompleteness == 60

\* The object literal getDemoAnalysis returns, from the constants it computed.
demoReport(content, at, contentLength, url, emotional, riskScore) ==
    [ analysis_summary |->
          [ risk_level |-> riskLevelOf(riskScore),
            risk_score |-> reportedScoreOf(riskScore),
            primary_concern |->
                IF emotional
                THEN "Content uses emotional manipulation and urgency tactics"
                ELSE "Content appears relatively neutral",
            credibility_rating |-> credibilityOf(riskScore) ],
      detected_tactics |-> detectedTacticsOf(content, emotional),
      cognitive_biases |-> cognitiveBiases,
      fact_check_flags |-> factCheckFlagsOf(emotional),
      educational_insights |-> educationalInsightsOf(emotional),
      recommendations |->
          [ immediate_action |-> immediateActionOf(riskScore),
            further_research |->
                << "Search scientific databases for related research",
                   "Check fact-checking websites",
                   "Consult domain experts" >>,
            share_decision |-> shareDecisionOf(riskScore),
            learning_opportunity |-> "Practice identifying emotional manipulation in content" ],
      confidence_metrics |->
          [ analysis_confidence |-> DemoConfidence,
            data_completeness |-> DemoCompleteness,
            context_availability |-> "PARTIAL" ],
      metadata |->
          [ analysis_timestamp |-> at,
            model_used |-> "demo-mode",
            content_length |-> contentLength,
            source_type |-> IF url THEN "url" ELSE "text" ] ]

\* The raw score getDemoAnalysis computes for content.
rawScore(content) ==
    riskScoreOf(Len(content), hasEmotionalWords(content), hasAllCaps(content),
                hasBang(content))

\* Mutant of getDemoAnalysis: source_type is also taken from the notices on
\* screen, a piece of state outside the argument.
getDemoAnalysisReadsNotices(content, at) ==
    LET emotional == hasEmotionalWords(content)
        riskScore == riskScoreOf(Len(content), emotional, hasAllCaps(content),
                                 hasBang(content))
    IN  demoReport(content, at, Len(content),
                   hasURL(content) \/ notifications # << >>, emotional, riskScore)

\* The Report built for content when the clock (new Date()) reads at.
getDemoAnalysis(content, at) ==
    LET emotional == hasEmotionalWords(content)
        riskScore == riskScoreOf(Len(content), emotional, hasAllCaps(content),
                                 hasBang(content))
    IN  demoReport(content, at, Len(content), hasURL(content), emotional, riskScore)

\* The text the demo button puts into the input.
DemoContent ==
<<
    "B","R","E","A","K","I","N","G",":"," ","S","c","i","e","n","t","i","s",
    "t","s"," ","S","H","O","C","K","E","D"," ","b","y"," ","t","h","i","s",
    " ","s","i","m","p","l","e"," ","t","r","i","c","k"," ","t","h","a","t",
    " ","B","i","g"," ","P","h","a","r","m","a"," ","H","A","T","E","S","!",
    " ","\n","T","h","e","y"," ","d","o","n","'","t"," ","w","a","n","t"," ",
    "y","o","u"," ","t","o"," ","k","n","o","w"," ","t","h","i","s"," ","o",
    "n","e"," ","s","e","c","r","e","t"," ","t","h","a","t"," ","c","o","u",
    "l","d"," ","s","a","v","e"," ","y","o","u","r"," ","l","i","f","e",".",
    " ","\n","T","h","o","u","s","a","n","d","s"," ","o","f"," ","p","e","o",
    "p","l","e"," ","a","r","e"," ","a","l","r","e","a","d","y"," ","u","s",
    "i","n","g"," ","t","h","i","s",","," ","b","u","t"," ","t","h","e"," ",
    "m","a","i","n","s","t","r","e","a","m"," ","m","e","d","i","a"," ","w",
    "o","n","'","t"," ","r","e","p","o","r","t"," ","i","t","."," ","\n","A",
    "c","t"," ","f","a","s","t"," ","-"," ","t","h","i","s"," ","i","n","f",
    "o","r","m","a","t","i","o","n"," ","m","i","g","h","t"," ","b","e"," ",
    "t","a","k","e","n"," ","d","o","w","n"," ","s","o","o","n","!" >>

\* ------------------------------------------------- configuration, values
backendUrls ==
    << "https://your-render-app.onrender.com",
       "https://your-railway-app.up.railway.app",
       "http://localhost:8000",
       "https://mindful-compass-api-1082426526892.us-central1.run.app" >>

\* script.js: const backendUrl
backendUrl == "https://mindful-compass-api-1082426526892.us-central1.run.app"

\* let activeBackendUrl = null
Null == "null"

\* No value: nothing handed over, nothing returned yet.
NoData == [ absent |-> TRUE ]

\* The JSON value null.
JsNull == [ null |-> TRUE ]

\* The JSON value {}.
EmptyObject == << >>

\* A body the service sends with a failure status.
DetailBody == [ detail |-> "Rate limit exceeded" ]

\* A Report as the live service sends it.
LiveReport ==
    [ analysis_summary |->
          [ risk_level |-> "MEDIUM", risk_score |-> 55,
            primary_concern |-> "Unverified health claim",
            credibility_rating |-> "QUESTIONABLE" ],
      detected_tactics |->
          << [ tactic_name |-> "Appeal to Fear",
               description |-> "Threatens harm if the reader does not act",
               example_from_content |-> << "could save your life" >>,
               manipulation_type |-> "EMOTIONAL" ] >>,
      cognitive_biases |-> << >>,
      fact_check_flags |-> << >>,
      educational_insights |->
          [ why_convincing |-> "Promises a simple cure",
            target_audience |-> "General public",
            psychological_appeal |-> "Hope",
            critical_questions |-> << "Who says so?" >>,
            verification_steps |-> << "Look for the study" >> ],
      recommendations |->
          [ immediate_action |-> "Verify before sharing",
            further_research |-> << "Search the claim" >>,
            share_decision |-> "SHARE_WITH_CONTEXT",
            learning_opportunity |-> "Spot appeals to fear" ],
      confidence_metrics |->
          [ analysis_confidence |-> 90, data_completeness |-> 80,
            context_availability |-> "FULL" ],
      metadata |->
          [ analysis_timestamp |-> 0, model_used |-> "gemini-1.5-pro",
            content_length |-> 0, source_type |-> "text" ] ]

\* A JSON object with the summary group alone.
SummaryOnly == [ analysis_summary |-> LiveReport.analysis_summary ]

\* What fetch settles with: a rejection (network error), or a response with
\* its status class, whether its body parses as JSON, and the parsed body.
NetErr == [ kind |-> "neterr", ok |-> FALSE, json |-> FALSE, body |-> NoData ]

Http(ok, json, body) == [ kind |-> "http", ok |-> ok, json |-> json, body |-> body ]

Responses ==
    { NetErr,
      Http(FALSE, TRUE, DetailBody),
      Http(FALSE, TRUE, EmptyObject),
      Http(FALSE, FALSE, NoData),
      Http(TRUE, TRUE, LiveReport),
      Http(TRUE, TRUE, EmptyObject),
      Http(TRUE, TRUE, SummaryOnly),
      Http(TRUE, TRUE, JsNull),
      Http(TRUE, FALSE, NoData) }

\* Outcome of one GET / probe.
Reachability == { "ok", "non2xx", "neterr" }

\* Texts the user types into the input.
TypedSecret == << " ", "S", "e", "c", "r", "e", "t", "!", " " >>

UserInputs == { << " ", "\n" >>, TypedSecret }

\* Messages of the errors the engine and the transport raise.
FetchErrorMessage == "Failed to fetch"
SyntaxErrorMessage == "Unexpected token < in JSON at position 0"
NullErrorMessage == "Cannot read properties of null (reading 'analysis_summary')"
UndefinedErrorMessage == "Cannot read properties of undefined"

vars ==
    << script, reach, activeBackendUrl, statusText, statusIcon, resolver, probed,
       contentInput, loading, resultsHidden, errorHidden, errorMessage, dom,
       notifications, inflight, logging, synthLog, last >>

resolverVars == << activeBackendUrl, statusText, statusIcon, resolver, probed >>

pageVars ==
    << loading, resultsHidden, errorHidden, errorMessage, dom, notifications,
       inflight >>

\* A step record: the handler (op), the branch it took (path), the trimmed
\* content it worked on, the value it handed to displayReport, the notice and
\* the error it showed, whether it issued a POST, the response it consumed.
Step(op, path, content, data, notice, error, posted, resp) ==
    [ op |-> op, path |-> path, content |-> content, data |-> data,
      notice |-> notice, error |-> error, posted |-> posted, resp |-> resp ]

\* A step of a handler that analyses nothing.
Quiet == Step("other", "", << >>, NoData, "", "", FALSE, NoData)

\* The readings new Date() may give.
Times == 0..MaxClock

\* One call of getDemoAnalysis as the log keeps it: the argument and the
\* returned Report, the reading of the clock left out.
Logged(content, data) ==
    [ content |-> content,
      report |-> [ data EXCEPT !.metadata.analysis_timestamp = 0 ] ]

\* The log after getDemoAnalysis(content) returned data.
Record(content, data) ==
    IF logging THEN synthLog \cup { Logged(content, data) } ELSE synthLog

\* -------------------------------------------------------- displayReport
textOf(group, field) == IF field \in DOMAIN group THEN group[field] ELSE ""

listOf(group, field) == IF field \in DOMAIN group THEN group[field] ELSE << >>

numberOf(group, field) == IF field \in DOMAIN group THEN group[field] ELSE 0

\* data.x || {}
groupOf(data, field) == IF field \in DOMAIN data THEN data[field] ELSE << >>

\* text || 'Not provided'
safeText(text) == IF text = "" THEN "Not provided" ELSE text

\* text || 'UNKNOWN'
orUnknown(text) == IF text = "" THEN "UNKNOWN" ELSE text

InitialDom ==
    [ riskLevelText |-> "", credibilityRating |-> "", primaryConcern |-> "",
      detectedTactics |-> << >>, cognitiveBiases |-> << >>,
      whyConvincing |-> "", criticalQuestions |-> << >>,
      factCheckFlags |-> << >>, factCheckSectionHidden |-> TRUE,
      immediateAction |-> "", shareDecision |-> "",
      analysisConfidenceText |-> 0, contextAvailability |-> "" ]

tacticItems(data) ==
    LET l == listOf(data, "detected_tactics")
    IN  IF Len(l) > 0
        THEN [ i \in 1..Len(l) |-> safeText(textOf(l[i], "tactic_name")) ]
        ELSE << "No specific manipulation tactics detected." >>

biasItems(data) ==
    LET l == listOf(data, "cognitive_biases")
    IN  IF Len(l) > 0
        THEN [ i \in 1..Len(l) |-> safeText(textOf(l[i], "bias_name")) ]
        ELSE << "No specific cognitive biases targeted." >>

flagItems(data) ==
    LET l == listOf(data, "fact_check_flags")
    IN  [ i \in 1..Len(l) |-> safeText(textOf(l[i], "claim")) ]

\* Enhanced displayReport: only a null data makes it throw (at its first read
\* of data, after the results section was uncovered).
displayReportThrows(data) == data = JsNull

displayReport(data) ==
    LET summary  == groupOf(data, "analysis_summary")
        insights == groupOf(data, "educational_insights")
        recs     == groupOf(data, "recommendations")
        metrics  == groupOf(data, "confidence_metrics")
    IN  [ riskLevelText |-> orUnknown(textOf(summary, "risk_level")),
          credibilityRating |-> orUnknown(textOf(summary, "credibility_rating")),
          primaryConcern |-> safeText(textOf(summary, "primary_concern")),
          detectedTactics |-> tacticItems(data),
          cognitiveBiases |-> biasItems(data),
          whyConvincing |-> safeText(textOf(insights, "why_convincing")),
          criticalQuestions |-> listOf(insights, "critical_questions"),
          factCheckFlags |-> flagItems(data),
          factCheckSectionHidden |-> Len(listOf(data, "fact_check_flags")) = 0,
          immediateAction |-> safeText(textOf(recs, "immediate_action")),
          shareDecision |-> safeText(textOf(recs, "share_decision")),
          analysisConfidenceText |-> numberOf(metrics, "analysis_confidence"),
          contextAvailability |-> orUnknown(textOf(metrics, "context_availability")) ]

\* script.js displayReport reads the four groups without a default: the
\* number of sections it writes before a missing group makes it throw
\* (0: none, 4: all of them, no throw).
basicSections(data) ==
    IF data = JsNull \/ "analysis_summary" \notin DOMAIN data THEN 0
    ELSE IF "educational_insights" \notin DOMAIN data THEN 1
    ELSE IF "recommendations" \notin DOMAIN data THEN 2
    ELSE IF "confidence_metrics" \notin DOMAIN data THEN 3
    ELSE 4

basicDisplayThrows(data) == basicSections(data) < 4

basicDisplayMessage(data) ==
    IF data = JsNull THEN NullErrorMessage ELSE UndefinedErrorMessage

basicDisplayReport(data, old) ==
    LET n == basicSections(data)
        full == displayReport(IF data = JsNull THEN EmptyObject ELSE data)
    IN  [ riskLevelText |->
              IF n >= 1 THEN data.analysis_summary.risk_level ELSE old.riskLevelText,
          credibilityRating |->
              IF n >= 1 THEN data.analysis_summary.credibility_rating
              ELSE old.credibilityRating,
          primaryConcern |-> IF n >= 1 THEN full.primaryConcern ELSE old.primaryConcern,
          detectedTactics |-> IF n >= 1 THEN full.detectedTactics ELSE old.detectedTactics,
          cognitiveBiases |-> IF n >= 1 THEN full.cognitiveBiases ELSE old.cognitiveBiases,
          whyConvincing |-> IF n >= 2 THEN full.whyConvincing ELSE old.whyConvincing,
          criticalQuestions |->
              IF n >= 2 THEN full.criticalQuestions ELSE old.criticalQuestions,
          factCheckFlags |-> IF n >= 2 THEN full.factCheckFlags ELSE old.factCheckFlags,
          factCheckSectionHidden |->
              IF n >= 2 THEN full.factCheckSectionHidden ELSE old.factCheckSectionHidden,
          immediateAction |-> IF n >= 3 THEN full.immediateAction ELSE old.immediateAction,
          shareDecision |-> IF n >= 3 THEN full.shareDecision ELSE old.shareDecision,
          analysisConfidenceText |->
              IF n >= 4 THEN data.confidence_metrics.analysis_confidence
              ELSE old.analysisConfidenceText,
          contextAvailability |->
              IF n >= 4 THEN data.confidence_metrics.context_availability
              ELSE old.contextAvailability ]

\* ----------------------------------------------------------------- Init
InitPage ==
    /\ activeBackendUrl = Null
    /\ statusText = ""
    /\ statusIcon = ""
    /\ resolver = [ pc |-> "idle", idx |-> 0 ]
    /\ probed = << >>
    /\ contentInput = << >>
    /\ loading = FALSE
    /\ resultsHidden = TRUE
    /\ errorHidden = TRUE
    /\ errorMessage = ""
    /\ dom = InitialDom
    /\ notifications = << >>
    /\ inflight = << >>
    /\ synthLog = {}

AllDown == << "neterr", "non2xx", "neterr", "non2xx" >>
FirstUp == << "ok", "ok", "neterr", "non2xx" >>
ThirdUp == << "neterr", "non2xx", "ok", "ok" >>

\* The networks the page is followed under: no candidate up, the first one
\* up, the third one the first that is up.
PageReach == { AllDown, FirstUp, ThirdUp }

Init ==
    /\ InitPage
    /\ logging = FALSE
    /\ last = Quiet
    /\ \/ /\ script = "enhanced"
          /\ reach \in PageReach
       \/ /\ script = "basic"
          /\ reach = AllDown

\* ------------------------------------------------ checkBackendConnection
\* Mutant of DOMContentLoaded: the first probe leaves with the status signal
\* untouched.
DOMContentLoadedSilent ==
    /\ script = "enhanced"
    /\ resolver.pc = "idle"
    /\ resolver' = [ pc |-> "awaiting", idx |-> 1 ]
    /\ probed' = << 1 >>
    /\ last' = Quiet
    /\ UNCHANGED << script, logging, reach, activeBackendUrl, contentInput, synthLog,
                    statusText, statusIcon >>
    /\ UNCHANGED pageVars

\* DOMContentLoaded: the status turns to checking and the first probe leaves.
DOMContentLoaded ==
    /\ script = "enhanced"
    /\ resolver.pc = "idle"
    /\ statusText' = "Checking backend connection..."
    /\ statusIcon' = "fas fa-circle text-warning"
    /\ resolver' = [ pc |-> "awaiting", idx |-> 1 ]
    /\ probed' = << 1 >>
    /\ last' = Quiet
    /\ UNCHANGED << script, logging, reach, activeBackendUrl, contentInput, synthLog >>
    /\ UNCHANGED pageVars

\* Mutant of probeSelects: the return after a success is missing, so a later
\* candidate that answers overwrites an earlier one.
probeSelectsLastOk(i) ==
    reach[i] = "ok" /\ \A j \in (i + 1)..Len(backendUrls) : reach[j] # "ok"

\* Mutant of probeSelects: any response selects, response.ok is not read.
probeSelectsAnyAnswer(i) == reach[i] # "neterr"

\* Mutant of probeSelects: a rejected probe ends the loop as a success does.
probeSelectsUnlessNon2xx(i) == reach[i] # "non2xx"

\* Does the probe of candidate i select it?  (response.ok; a rejection and a
\* failure status both leave the loop running.)
probeSelects(i) == reach[i] = "ok"

\* The awaited probe settles: select the candidate, or probe the next one, or
\* give up after the last.
ProbeSettles ==
    /\ resolver.pc = "awaiting"
    /\ LET i == resolver.idx
       IN  IF probeSelects(i)
           THEN /\ activeBackendUrl' = backendUrls[i]
                /\ statusText' = "Connected to backend"
                /\ statusIcon' = "fas fa-circle text-success"
                /\ resolver' = [ pc |-> "done", idx |-> i ]
                /\ probed' = probed
           ELSE IF i < Len(backendUrls)
           THEN /\ resolver' = [ pc |-> "awaiting", idx |-> i + 1 ]
                /\ probed' = Append(probed, i + 1)
                /\ UNCHANGED << activeBackendUrl, statusText, statusIcon >>
           ELSE /\ statusText' = "Backend offline - Demo mode only"
                /\ statusIcon' = "fas fa-circle text-error"
                /\ resolver' = [ pc |-> "done", idx |-> i ]
                /\ UNCHANGED << activeBackendUrl, probed >>
    /\ last' = Quiet
    /\ UNCHANGED << script, logging, reach, contentInput, synthLog >>
    /\ UNCHANGED pageVars

\* ------------------------------------------------------- analyzeContent
\* Mutant of showLoading: the overlay is shown and never hidden again.
showLoadingNeverHides(show) == show \/ loading

\* showLoading(show): is the loading overlay shown afterwards?
showLoading(show) == show

\* showLoading of script.js
basicShowLoading(show) == show

DemoNotice == "Running in demo mode"
FallbackNotice == "Using demo mode - backend temporarily unavailable"
EmptyInputError == "Please enter some content to analyze"

\* Room for one more analysis within the bounds of the model.
Room == Len(inflight) < MaxInFlight /\ Len(notifications) + Len(inflight) < MaxNotes

\* Mutant of startPath: the endpoint is not tested before the POST.
startPathAlwaysPost(content, endpoint) ==
    IF content = << >> THEN "validation" ELSE "post"

\* Mutant of startPath: the POST goes out whenever some candidate is up, to
\* the endpoint as it stands, whether the resolver has stored it or not.
startPathWhenUp(content, endpoint) ==
    IF content = << >> THEN "validation"
    ELSE IF \E i \in 1..Len(backendUrls) : reach[i] = "ok" THEN "post"
    ELSE "demo"

\* The branch analyzeContent takes before its first await.
startPath(content, endpoint) ==
    IF content = << >> THEN "validation"
    ELSE IF endpoint # Null THEN "post"
    ELSE "demo"

\* analyzeContent up to its first await, called by handler op when the input
\* holds value.  Without an endpoint it runs to its end in this one step:
\* showLoading(true) ... showLoading(false).
analyzeContent(value, op) ==
    LET content == trim(value)
        path == startPath(content, activeBackendUrl)
    IN  /\ path # "validation" => Room
        /\ IF path = "validation"
           THEN /\ errorMessage' = EmptyInputError
                /\ errorHidden' = FALSE
                /\ last' = Step(op, path, content, NoData, "", EmptyInputError, FALSE, NoData)
                /\ UNCHANGED << loading, resultsHidden, dom, notifications, inflight,
                                synthLog >>
           ELSE IF path = "post"
           THEN /\ loading' = showLoading(TRUE)
                /\ resultsHidden' = TRUE
                /\ errorHidden' = TRUE
                /\ inflight' = Append(inflight,
                                      [ base |-> activeBackendUrl, path |-> "/analyze",
                                        content |-> content ])
                /\ last' = Step(op, path, content, NoData, "", "", TRUE, NoData)
                /\ UNCHANGED << errorMessage, dom, notifications, synthLog >>
           ELSE \E at \in Times :
                \E data \in { getDemoAnalysis(content, at) } :
                    /\ loading' = showLoading(FALSE)
                    /\ resultsHidden' = FALSE
                    /\ errorHidden' = TRUE
                    /\ notifications' = Append(notifications, DemoNotice)
                    /\ dom' = displayReport(data)
                    /\ last' = Step(op, path, content, data, DemoNotice, "", FALSE, NoData)
                    /\ synthLog' = Record(content, data)
                    /\ UNCHANGED << errorMessage, inflight >>

\* form submit
Submit ==
    /\ script = "enhanced"
    /\ analyzeContent(contentInput, "submit")
    /\ UNCHANGED << script, logging, reach, contentInput >>
    /\ UNCHANGED resolverVars

\* demoBtn click
DemoClick ==
    /\ script = "enhanced"
    /\ contentInput' = DemoContent
    /\ analyzeContent(DemoContent, "demo")
    /\ UNCHANGED << script, logging, reach >>
    /\ UNCHANGED resolverVars

\* retryBtn click: the error section is covered, then analyzeContent runs (and
\* sets the error section on each of its branches).
RetryClick ==
    /\ script = "enhanced"
    /\ analyzeContent(contentInput, "retry")
    /\ UNCHANGED << script, logging, reach, contentInput >>
    /\ UNCHANGED resolverVars

\* Mutant of livePath: fetch is called outside the inner try, so its
\* rejection reaches the outer catch.
livePathFetchOutside(resp) ==
    IF resp.kind = "neterr" THEN "error"
    ELSE IF ~resp.ok THEN "fallback"
    ELSE IF ~resp.json THEN "fallback"
    ELSE "render"

\* Mutant of livePath: response.json() is called outside the inner try, so a
\* body that does not parse reaches the outer catch.
livePathJsonOutside(resp) ==
    IF resp.kind = "neterr" THEN "fallback"
    ELSE IF ~resp.ok THEN "fallback"
    ELSE IF ~resp.json THEN "error"
    ELSE "render"

\* The branch the awaited POST resumes into: "fallback" (the inner catch),
\* "render" (the parsed body goes to displayReport), "error" (thrown past the
\* inner try, to the outer catch).
livePath(resp) ==
    IF resp.kind = "neterr" THEN "fallback"
    ELSE IF ~resp.ok THEN "fallback"
    ELSE IF ~resp.json THEN "fallback"
    ELSE "render"

\* The message of what the inner try threw (logged by the inner catch).
backendErrorMessage(resp) ==
    IF resp.kind = "neterr" THEN FetchErrorMessage
    ELSE IF ~resp.ok THEN "HTTP status"
    ELSE SyntaxErrorMessage

\* The notice the inner catch shows.
fallbackNotice(resp) == FallbackNotice

\* Mutant of Without: the call that settled is sent once more, to the first
\* candidate.
WithoutButRetried(s, k) ==
    Append([ i \in 1..(Len(s) - 1) |-> IF i < k THEN s[i] ELSE s[i + 1] ],
           [ s[k] EXCEPT !.base = backendUrls[1] ])

Without(s, k) == [ i \in 1..(Len(s) - 1) |-> IF i < k THEN s[i] ELSE s[i + 1] ]

\* The k-th outstanding POST of analyzeContent settles with resp.
AnalyzeSettles(k, resp) ==
    /\ script = "enhanced"
    /\ k \in 1..Len(inflight)
    /\ \E at \in Times :
       \E data \in { IF livePath(resp) = "fallback"
                     THEN getDemoAnalysis(inflight[k].content, at)
                     ELSE IF livePath(resp) = "render" THEN resp.body
                     ELSE NoData } :
       LET content == inflight[k].content
           path == livePath(resp)
           notice == IF path = "fallback" THEN fallbackNotice(resp) ELSE ""
           threw == path = "error" \/ displayReportThrows(data)
           error == IF path = "error" THEN "Analysis failed: " \o backendErrorMessage(resp)
                    ELSE IF threw THEN "Analysis failed: " \o NullErrorMessage
                    ELSE ""
       IN  /\ path # "fallback" => at = 0
           /\ inflight' = Without(inflight, k)
           /\ notifications' = IF path = "fallback" THEN Append(notifications, notice)
                               ELSE notifications
           /\ resultsHidden' = IF path = "error" THEN resultsHidden ELSE FALSE
           /\ dom' = IF threw THEN dom ELSE displayReport(data)
           /\ IF threw
              THEN errorMessage' = error /\ errorHidden' = FALSE
              ELSE UNCHANGED << errorMessage, errorHidden >>
           /\ loading' = showLoading(FALSE)
           /\ last' = Step("settle", path, content, data, notice, error, FALSE, resp)
           /\ synthLog' = IF path = "fallback" THEN Record(content, data)
                          ELSE synthLog
    /\ UNCHANGED << script, logging, reach, contentInput >>
    /\ UNCHANGED resolverVars

\* setTimeout of showNotification: the oldest notification is removed.
NotificationTimeout ==
    /\ notifications # << >>
    /\ notifications' = Tail(notifications)
    /\ last' = Quiet
    /\ UNCHANGED << script, logging, reach, contentInput, loading, resultsHidden,
                    errorHidden, errorMessage, dom, inflight >>
    /\ UNCHANGED << resolverVars, synthLog >>

\* Mutant of NewAnalysisClick: a new analysis also forgets the endpoint.
NewAnalysisClickForgetsEndpoint ==
    /\ resultsHidden' = TRUE
    /\ contentInput' = << >>
    /\ activeBackendUrl' = Null
    /\ last' = Quiet
    /\ UNCHANGED << script, logging, reach, loading, errorHidden, errorMessage, dom,
                    notifications, inflight >>
    /\ UNCHANGED << statusText, statusIcon, resolver, probed, synthLog >>

\* newAnalysisBtn click (both scripts)
NewAnalysisClick ==
    /\ resultsHidden' = TRUE
    /\ contentInput' = << >>
    /\ last' = Quiet
    /\ UNCHANGED << script, logging, reach, loading, errorHidden, errorMessage, dom,
                    notifications, inflight >>
    /\ UNCHANGED << resolverVars, synthLog >>

\* The user edits the input.
TypeContent(value) ==
    /\ contentInput # value
    /\ contentInput' = value
    /\ last' = Quiet
    /\ UNCHANGED << script, logging, reach >>
    /\ UNCHANGED pageVars
    /\ UNCHANGED << resolverVars, synthLog >>

\* ------------------------------------------------------------ script.js
\* The branch the submit handler of script.js takes before its first await.
basicStartPath(content) == IF content = << >> THEN "validation" ELSE "post"

\* form submit of script.js, up to its first await.
BasicSubmit ==
    /\ script = "basic"
    /\ LET content == trim(contentInput)
           path == basicStartPath(content)
       IN  IF path = "validation"
           THEN /\ last' = Step("basicSubmit", path, content, NoData, "", "", FALSE, NoData)
                /\ UNCHANGED pageVars
           ELSE /\ Len(inflight) < MaxInFlight
                /\ loading' = basicShowLoading(TRUE)
                /\ resultsHidden' = TRUE
                /\ errorHidden' = TRUE
                /\ inflight' = Append(inflight,
                                      [ base |-> backendUrl, path |-> "/analyze",
                                        content |-> content ])
                /\ last' = Step("basicSubmit", path, content, NoData, "", "", TRUE, NoData)
                /\ UNCHANGED << errorMessage, dom, notifications >>
    /\ UNCHANGED << script, logging, reach, contentInput >>
    /\ UNCHANGED << resolverVars, synthLog >>

\* The message of the error the awaited POST of script.js ends in ("" when it
\* ends in none).
basicError(resp) ==
    IF resp.kind = "neterr" THEN FetchErrorMessage
    ELSE IF ~resp.json THEN SyntaxErrorMessage
    ELSE IF ~resp.ok
         THEN IF textOf(resp.body, "detail") # "" THEN resp.body.detail
              ELSE "Analysis failed"
    ELSE IF basicDisplayThrows(resp.body) THEN basicDisplayMessage(resp.body)
    ELSE ""

\* The k-th outstanding POST of script.js settles with resp.
BasicSettles(k, resp) ==
    /\ script = "basic"
    /\ k \in 1..Len(inflight)
    /\ LET content == inflight[k].content
           error == basicError(resp)
           shown == resp.kind = "http" /\ resp.ok /\ resp.json
       IN  /\ inflight' = Without(inflight, k)
           /\ resultsHidden' = IF shown THEN FALSE ELSE resultsHidden
           /\ dom' = IF shown THEN basicDisplayReport(resp.body, dom) ELSE dom
           /\ IF error # ""
              THEN errorMessage' = error /\ errorHidden' = FALSE
              ELSE UNCHANGED << errorMessage, errorHidden >>
           /\ loading' = basicShowLoading(FALSE)
           /\ last' = Step("basicSettle", IF error = "" THEN "render" ELSE "error",
                           content, IF shown THEN resp.body ELSE NoData, "", error,
                           FALSE, resp)
    /\ UNCHANGED << script, logging, reach, contentInput, notifications >>
    /\ UNCHANGED << resolverVars, synthLog >>

\* retryBtn click of script.js
BasicRetryClick ==
    /\ script = "basic"
    /\ errorHidden' = TRUE
    /\ last' = Quiet
    /\ UNCHANGED << script, logging, reach, contentInput, loading, resultsHidden,
                    errorMessage, dom, notifications, inflight >>
    /\ UNCHANGED << resolverVars, synthLog >>

\* ------------------------------------------------------- specifications
Next ==
    \/ DOMContentLoaded
    \/ ProbeSettles
    \/ Submit
    \/ DemoClick
    \/ RetryClick
    \/ \E k \in 1..MaxInFlight, resp \in Responses : AnalyzeSettles(k, resp)
    \/ NotificationTimeout
    \/ NewAnalysisClick
    \/ \E value \in UserInputs : TypeContent(value)
    \/ BasicSubmit
    \/ \E k \in 1..MaxInFlight, resp \in Responses : BasicSettles(k, resp)
    \/ BasicRetryClick

\* The page, with either script, from its load on.
Spec == Init /\ [][Next]_vars

\* The page with the calls of getDemoAnalysis recorded, on the network where
\* the resolver stores an endpoint late: analyses run before and after it.
InitLogged ==
    /\ InitPage
    /\ logging = TRUE
    /\ last = Quiet
    /\ \/ /\ script = "enhanced"
          /\ reach = ThirdUp
       \/ /\ script = "basic"
          /\ reach = AllDown

SpecLogged == InitLogged /\ [][Next]_vars

\* The resolver alone, under every reachability of the four candidates.
InitResolve ==
    /\ InitPage
    /\ logging = FALSE
    /\ last = Quiet
    /\ script = "enhanced"
    /\ reach \in [ 1..Len(backendUrls) -> Reachability ]

NextResolve ==
    \/ DOMContentLoaded
    \/ ProbeSettles

SpecResolve == InitResolve /\ [][NextResolve]_vars

\* The synthesizer alone, applied to any input at any time.
SynthTokens ==
    { << "B","R","E","A","K","I","N","G" >>,
      << "S","e","c" >>, << "r","e","t" >>,
      << "u","r","g","e","n","t" >>,
      << "A","B","C" >>, << "D" >>, << "D","!" >>,
      << "h","t","t","p" >> }

PadLengths == { 0, 97, 150 }

Pad(n) == [ i \in 1..n |-> "x" ]

RECURSIVE Flatten(_)
Flatten(ts) == IF ts = << >> THEN << >> ELSE Head(ts) \o Flatten(Tail(ts))

SynthInputs ==
    { Flatten(ts) \o Pad(n) :
        ts \in UNION { [ 1..m -> SynthTokens ] : m \in 0..MaxTokens },
        n \in PadLengths }

\* A caller is about to pass content to getDemoAnalysis.
InitSynth ==
    /\ InitPage
    /\ logging = FALSE
    /\ script = "enhanced"
    /\ reach = AllDown
    /\ \E content \in SynthInputs :
           last = Step("synthesize", "enter", content, NoData, "", "", FALSE, NoData)

\* getDemoAnalysis returns.
Synthesize ==
    /\ last.op = "synthesize"
    /\ last.path = "enter"
    /\ \E at \in Times :
       \E data \in { getDemoAnalysis(last.content, at) } :
           /\ last' = Step("synthesize", "return", last.content, data, "", "", FALSE, NoData)
           /\ synthLog' = Record(last.content, data)
    /\ UNCHANGED << script, logging, reach, contentInput >>
    /\ UNCHANGED pageVars
    /\ UNCHANGED resolverVars

NextSynth == Synthesize

SpecSynth == InitSynth /\ [][NextSynth]_vars

\* ---------------------------------------------------------- properties
\* A Report with its one time-dependent field set aside.
SansTimestamp(r) == [ r EXCEPT !.metadata.analysis_timestamp = 0 ]

\* The Report the synthesizer gives for content, time set aside.
Synthesized(content) == SansTimestamp(getDemoAnalysis(content, 0))

\* Index of the first candidate of r that answers with a success status.
FirstOk(r) ==
    CHOOSE i \in 1..Len(r) : r[i] = "ok" /\ \A j \in 1..(i - 1) : r[j] # "ok"

SomeOk(r) == \E i \in 1..Len(r) : r[i] = "ok"

\* The text is empty once white space is trimmed from its ends.
AllBlank(s) == \A i \in 1..Len(s) : s[i] \in WhiteSpace

\* s without the white space at its two ends.
Trimmed(s) ==
    IF AllBlank(s) THEN << >>
    ELSE LET first == CHOOSE i \in 1..Len(s) :
                          s[i] \notin WhiteSpace /\ \A j \in 1..(i - 1) : s[j] \in WhiteSpace
             final == CHOOSE i \in 1..Len(s) :
                          s[i] \notin WhiteSpace
                              /\ \A j \in (i + 1)..Len(s) : s[j] \in WhiteSpace
         IN  SubSeq(s, first, final)

\* c is the letter l (lower case), in either case.
SameLetter(c, l) ==
    c = l \/ \E i \in 1..Len(LowerLetters) : LowerLetters[i] = l /\ UpperLetters[i] = c

TriggerWords ==
    { << "b","r","e","a","k","i","n","g" >>, << "s","h","o","c","k","i","n","g" >>,
      << "s","e","c","r","e","t" >>, << "e","x","c","l","u","s","i","v","e" >>,
      << "b","a","n","n","e","d" >>, << "h","i","d","d","e","n" >>,
      << "u","r","g","e","n","t" >> }

\* s matches an emotional-trigger word, case-insensitively.
MatchesTrigger(s) ==
    \E w \in TriggerWords :
        \E i \in 1..(Len(s) - Len(w) + 1) :
            \A k \in 1..Len(w) : SameLetter(s[i + k - 1], w[k])

\* s has a run of 4 or more upper-case letters.
HasCapsRun(s) ==
    \E i \in 1..(Len(s) - 3) :
        \A k \in i..(i + 3) : \E j \in 1..Len(UpperLetters) : UpperLetters[j] = s[k]

HasExclamation(s) == \E i \in 1..Len(s) : s[i] = "!"

Bit(b) == IF b THEN 1 ELSE 0

\* The raw score the specification gives s.
RawScore(s) ==
    30 + 25 * Bit(MatchesTrigger(s)) + 20 * Bit(HasCapsRun(s))
       + 10 * Bit(HasExclamation(s)) - 10 * Bit(Len(s) < 100)

Min(a, b) == IF a < b THEN a ELSE b

\* getDemoAnalysis has just returned last.data for last.content.
Returned == last.op = "synthesize" /\ last.path = "return"

\* The POST of analyzeContent has just settled with last.resp.
Settled == last.op = "settle"

\* analyzeContent has just been entered by one of its three handlers.
Entered == last.op \in { "submit", "demo", "retry" }

\* C1: once checkBackendConnection has finished on a list with an entry that
\* answers with a success status, activeBackendUrl is the first such entry in
\* list order, whatever the entries after it answer.
C1_FirstReachableWins ==
    (resolver.pc = "done" /\ SomeOk(reach))
        => activeBackendUrl = backendUrls[FirstOk(reach)]

\* Witness of C1: the third candidate is selected, behind a rejection and a
\* failure status, with the fourth reachable too.
C1_Witness ==
    /\ resolver.pc = "done"
    /\ reach = << "neterr", "non2xx", "ok", "ok" >>
    /\ activeBackendUrl = backendUrls[3]

\* C2: on a list no entry of which answers with a success status,
\* checkBackendConnection always can go on until it has finished, leaves
\* activeBackendUrl null throughout and ends with the status signal offline.
C2_NoneReachableOffline ==
    ~SomeOk(reach)
        => /\ activeBackendUrl = Null
           /\ resolver.pc = "awaiting"
                => resolver.idx \in 1..Len(backendUrls) /\ ENABLED ProbeSettles
           /\ resolver.pc = "done"
                => /\ statusText = "Backend offline - Demo mode only"
                   /\ statusIcon = "fas fa-circle text-error"
                   /\ Len(probed) = Len(backendUrls)

\* Witness of C2: the resolver has finished, rejections and failure statuses
\* mixed.
C2_Witness ==
    /\ resolver.pc = "done"
    /\ reach = << "non2xx", "neterr", "neterr", "non2xx" >>
    /\ activeBackendUrl = Null

\* C3: when the POST to /analyze is rejected with a network error,
\* analyzeContent hands displayReport the Report getDemoAnalysis gives for the
\* content it posted (analysis_timestamp aside), the Report is on screen, and
\* the step shows no error.
C3_NetworkErrorFallsBack ==
    (Settled /\ last.resp = NetErr)
        => /\ last.path = "fallback"
           /\ SansTimestamp(last.data) = Synthesized(last.content)
           /\ last.error = ""
           /\ dom = displayReport(last.data)
           /\ ~resultsHidden

\* Witness of C3: a rejected POST of the demo text, synthesized at time 1.
C3_Witness ==
    /\ Settled
    /\ last.resp = NetErr
    /\ last.content = DemoContent
    /\ last.data.metadata.analysis_timestamp = 1

\* The body is an object with every group of the Report schema.
IsReport(body) ==
    { "analysis_summary", "detected_tactics", "cognitive_biases", "fact_check_flags",
      "educational_insights", "recommendations", "confidence_metrics", "metadata" }
        \subseteq DOMAIN body

\* The response has a success status and a body that is no Report.
MalformedSuccess(resp) ==
    resp.kind = "http" /\ resp.ok /\ (~resp.json \/ ~IsReport(resp.body))

C5_EmptyInputRejected ==
    [][ (last'.op \in { "submit", "retry", "basicSubmit" } /\ AllBlank(contentInput))
            => /\ inflight' = inflight
               /\ ~last'.posted
               /\ last'.data = NoData
               /\ dom' = dom
               /\ loading' = loading
               /\ resultsHidden' = resultsHidden
               /\ notifications' = notifications
               /\ last'.op # "basicSubmit"
                    => /\ ~errorHidden'
                       /\ errorMessage' = EmptyInputError
                       /\ last'.error = EmptyInputError ]_vars

\* Witness of C5: a blank input is rejected while an endpoint is resolved and
\* an earlier call is still outstanding.
C5_Witness ==
    /\ last.op = "submit"
    /\ last.path = "validation"
    /\ contentInput = << " ", "\n" >>
    /\ activeBackendUrl # Null
    /\ inflight # << >>
    /\ loading

\* C6: while the enhanced script has no endpoint resolved no POST is
\* outstanding, and analyzeContent
\* on a non-empty content has sent none, has handed displayReport the Report
\* of getDemoAnalysis for the trimmed content and has shown the demo-mode
\* notice.
C6_NoEndpointDemoMode ==
    (script = "enhanced" /\ activeBackendUrl = Null)
        => /\ inflight = << >>
           /\ (Entered /\ ~AllBlank(contentInput))
                => /\ ~last.posted
                   /\ SansTimestamp(last.data) = Synthesized(Trimmed(contentInput))
                   /\ last.notice = DemoNotice
                   /\ notifications # << >>
                   /\ notifications[Len(notifications)] = DemoNotice
                   /\ dom = displayReport(last.data)
                   /\ ~resultsHidden
                   /\ ~loading

\* Witness of C6: a typed text analysed in demo mode after the resolver found
\* no candidate.
C6_Witness ==
    /\ last.op = "submit"
    /\ last.path = "demo"
    /\ resolver.pc = "done"
    /\ activeBackendUrl = Null
    /\ contentInput = TypedSecret
    /\ last.content = << "S", "e", "c", "r", "e", "t", "!" >>

\* The notice carries the detail message of the server.
Surfaces(notice, detail) ==
    \E prefix \in { "", FallbackNotice \o ": ", "Analysis failed: " } :
        notice = prefix \o detail

\* C7 as claimed: a non-2xx answer makes analyzeContent fall back to the
\* synthesized Report with a notice, and the notice surfaces the detail field
\* of the response body when there is one.
C7_DetailInNotice ==
    (Settled /\ last.resp.kind = "http" /\ ~last.resp.ok)
        => /\ last.path = "fallback"
           /\ SansTimestamp(last.data) = Synthesized(last.content)
           /\ last.notice # ""
           /\ (last.resp.json /\ textOf(last.resp.body, "detail") # "")
                => Surfaces(last.notice, last.resp.body.detail)

\* C8: the risk_score getDemoAnalysis reports is
\* min(30 + 25*trigger + 20*caps run + 10*'!' - 10*(length < 100), 95); the
\* empty string scores 20.
C8_RiskScoreFormula ==
    Returned
        => /\ last.data.analysis_summary.risk_score = Min(RawScore(last.content), 95)
           /\ last.content = << >> => last.data.analysis_summary.risk_score = 20
           /\ RawScore(last.content) > 95 => last.data.analysis_summary.risk_score = 95

\* Witness of C8: a text of 100 characters or more with a trigger word, a caps
\* run and '!' is given 85.
C8_Witness ==
    /\ Returned
    /\ Len(last.content) >= 100
    /\ MatchesTrigger(last.content)
    /\ HasCapsRun(last.content)
    /\ HasExclamation(last.content)
    /\ last.data.analysis_summary.risk_score = 85

\* C9: risk_level is HIGH above 70, MEDIUM above 50 up to 70, LOW otherwise;
\* credibility_rating is QUESTIONABLE exactly above 50, hence RELIABLE exactly
\* when risk_level is LOW.
C9_LevelAndCredibility ==
    Returned
        => LET score == RawScore(last.content)
               level == last.data.analysis_summary.risk_level
               rating == last.data.analysis_summary.credibility_rating
           IN  /\ level = (IF score > 70 THEN "HIGH"
                           ELSE IF score > 50 THEN "MEDIUM" ELSE "LOW")
               /\ rating = (IF score > 50 THEN "QUESTIONABLE" ELSE "RELIABLE")
               /\ (rating = "RELIABLE") = (level = "LOW")

\* Witness of C9: a score in (50, 70] is MEDIUM and already QUESTIONABLE.
C9_Witness ==
    /\ Returned
    /\ RawScore(last.content) > 50
    /\ RawScore(last.content) <= 70
    /\ last.data.analysis_summary.risk_level = "MEDIUM"
    /\ last.data.analysis_summary.credibility_rating = "QUESTIONABLE"

\* C10: share_decision is AVOID_SHARING exactly when risk_level is HIGH (raw
\* score above 70) and SHARE_WITH_CONTEXT otherwise; a short text with trigger
\* word, caps run and '!' scores 75 and is HIGH / QUESTIONABLE / AVOID_SHARING,
\* 150 neutral characters score 30 and are LOW / RELIABLE / SHARE_WITH_CONTEXT.
C10_ShareDecision ==
    Returned
        => LET s == last.content
               summary == last.data.analysis_summary
               share == last.data.recommendations.share_decision
           IN  /\ share = (IF summary.risk_level = "HIGH" THEN "AVOID_SHARING"
                           ELSE "SHARE_WITH_CONTEXT")
               /\ (share = "AVOID_SHARING") = (RawScore(s) > 70)
               /\ (Len(s) < 100 /\ MatchesTrigger(s) /\ HasCapsRun(s) /\ HasExclamation(s))
                    => /\ summary.risk_score = 75
                       /\ summary.risk_level = "HIGH"
                       /\ summary.credibility_rating = "QUESTIONABLE"
                       /\ share = "AVOID_SHARING"
               /\ (Len(s) = 150 /\ ~MatchesTrigger(s) /\ ~HasCapsRun(s) /\ ~HasExclamation(s))
                    => /\ summary.risk_score = 30
                       /\ summary.risk_level = "LOW"
                       /\ summary.credibility_rating = "RELIABLE"
                       /\ share = "SHARE_WITH_CONTEXT"

\* Witness of C10: the short text BREAKINGD! is HIGH and not to be shared.
C10_Witness ==
    /\ Returned
    /\ last.content = << "B","R","E","A","K","I","N","G","D","!" >>
    /\ last.data.analysis_summary.risk_score = 75
    /\ last.data.recommendations.share_decision = "AVOID_SHARING"

\* The names of the entries of a list of the Report.
NamesOf(list, field) == [ i \in 1..Len(list) |-> list[i][field] ]

\* C11: getDemoAnalysis emits the two tactics Emotional Manipulation and
\* Urgency Creation and one fact-check flag when the content matches a trigger
\* word, otherwise the one tactic Demo Analysis and a fact-check list that is
\* present and empty; the cognitive-bias list has the same two entries in
\* both cases.
C11_TacticsAndFlags ==
    Returned
        => LET r == last.data
           IN  /\ { "detected_tactics", "cognitive_biases", "fact_check_flags" }
                      \subseteq DOMAIN r
               /\ IF MatchesTrigger(last.content)
                  THEN /\ NamesOf(r.detected_tactics, "tactic_name")
                            = << "Emotional Manipulation", "Urgency Creation" >>
                       /\ Len(r.fact_check_flags) = 1
                  ELSE /\ NamesOf(r.detected_tactics, "tactic_name") = << "Demo Analysis" >>
                       /\ r.fact_check_flags = << >>
               /\ NamesOf(r.cognitive_biases, "bias_name")
                    = << "Fear of Missing Out (FOMO)", "Authority Bias" >>

\* Witness of C11: a text without trigger word got the placeholder tactic and
\* an empty flag list.
C11_Witness ==
    /\ Returned
    /\ last.content = << "A","B","C","D","!" >>
    /\ Len(last.data.detected_tactics) = 1
    /\ last.data.fact_check_flags = << >>
    /\ Len(last.data.cognitive_biases) = 2

C13_AtMostOneOutstanding ==
    script = "enhanced" => Len(inflight) <= 1

\* The candidate list as a set.
Candidates == { backendUrls[i] : i \in 1..Len(backendUrls) }

\* C14: activeBackendUrl is always null or a member of the candidate list, and
\* it changes only once, from null, in the step in which the awaited probe of
\* checkBackendConnection settles and ends the resolution; no submit, demo,
\* retry, new-analysis, settling or notification step changes it.
C14_EndpointSetOnceByResolver ==
    /\ [](activeBackendUrl = Null \/ activeBackendUrl \in Candidates)
    /\ [][ activeBackendUrl' # activeBackendUrl
             => /\ activeBackendUrl = Null
                /\ resolver.pc = "awaiting"
                /\ resolver'.pc = "done"
                /\ activeBackendUrl' = backendUrls[resolver.idx]
                /\ last' = Quiet ]_vars

\* Witness of C14: the endpoint stored by the resolver is the third candidate
\* and is still that after a call of analyzeContent settled and rendered.
C14_Witness ==
    /\ Settled
    /\ resolver.pc = "done"
    /\ reach = ThirdUp
    /\ activeBackendUrl = backendUrls[3]
    /\ last.posted = FALSE
    /\ last.path = "render"

\* The candidates checkBackendConnection probes under reachability r: those
\* up to and including the first that answers with success, all when none does.
ProbePrefix(r) ==
    IF SomeOk(r) THEN [ i \in 1..FirstOk(r) |-> i ] ELSE [ i \in 1..Len(r) |-> i ]

\* C15: checkBackendConnection probes the candidates in list order, one at a
\* time; a probe that throws and one that answers non-2xx both leave the
\* endpoint unset and pass to the next candidate; the candidates probed are
\* always a prefix of the list, none after the first success, and when the
\* resolution has finished exactly the prefix up to that success (the whole
\* list when there is none).
C15_ProbesPrefixInOrder ==
    /\ Len(probed) <= Len(ProbePrefix(reach))
    /\ probed = SubSeq(ProbePrefix(reach), 1, Len(probed))
    /\ resolver.pc = "awaiting"
          => /\ resolver.idx = Len(probed)
             /\ activeBackendUrl = Null
             /\ \A j \in 1..(Len(probed) - 1) : reach[j] \in { "neterr", "non2xx" }
    /\ resolver.pc = "done" => probed = ProbePrefix(reach)

\* Witness of C15: a rejection and a non-2xx answer were passed over alike, the
\* third candidate succeeded and the fourth, also up, was never probed.
C15_Witness ==
    /\ resolver.pc = "done"
    /\ reach = << "neterr", "non2xx", "ok", "ok" >>
    /\ probed = << 1, 2, 3 >>
    /\ activeBackendUrl = backendUrls[3]

\* The call the awaited POST settled with failed: rejected, or a non-2xx status.
Failed(resp) == resp.kind = "neterr" \/ ~resp.ok

\* C16: an invocation of analyzeContent sends at most one POST /analyze, to
\* the resolved endpoint, in the step that enters it; the step in which that
\* call settles sends none: the settled call leaves the outstanding ones, no
\* call is added, and after a failure the Report is that of getDemoAnalysis.
C16_OnePostPerInvocation ==
    [][ /\ Entered'
            => /\ Len(inflight') <= Len(inflight) + 1
               /\ last'.posted = (Len(inflight') = Len(inflight) + 1)
               /\ last'.posted
                    => /\ SubSeq(inflight', 1, Len(inflight)) = inflight
                       /\ inflight'[Len(inflight')].base = activeBackendUrl
                       /\ inflight'[Len(inflight')].path = "/analyze"
        /\ Settled'
            => /\ ~last'.posted
               /\ \E k \in 1..Len(inflight) :
                      /\ inflight[k].content = last'.content
                      /\ inflight' = [ i \in 1..(Len(inflight) - 1) |->
                                         IF i < k THEN inflight[i] ELSE inflight[i + 1] ]
               /\ Failed(last'.resp)
                    => /\ last'.path = "fallback"
                       /\ SansTimestamp(last'.data) = Synthesized(last'.content) ]_vars

\* Witness of C16: the only outstanding call failed with a non-2xx status and
\* nothing is outstanding after it; the synthesized Report is on screen.
C16_Witness ==
    /\ Settled
    /\ last.resp.kind = "http"
    /\ ~last.resp.ok
    /\ last.path = "fallback"
    /\ inflight = << >>
    /\ ~loading
    /\ dom = displayReport(last.data)

\* C17: once the call of an analysis that passed validation has settled, in
\* success, non-2xx, network error, unparsable body or a failure while
\* rendering, the loading flag is cleared, in both scripts; so it is after an
\* analysis that needed no call.
C17_LoadingCleared ==
    /\ last.op \in { "settle", "basicSettle" } => ~loading
    /\ (Entered /\ last.path = "demo") => ~loading

\* Witness of C17: rendering the body of a successful call failed in the
\* enhanced script; the error is shown and the overlay is gone.
C17_Witness ==
    /\ Settled
    /\ last.resp.ok
    /\ last.resp.json
    /\ last.error # ""
    /\ ~errorHidden
    /\ ~loading

\* The backend status signal the page shows.
Signal ==
    IF statusText = "Checking backend connection..." /\ statusIcon = "fas fa-circle text-warning"
    THEN "checking"
    ELSE IF statusText = "Connected to backend" /\ statusIcon = "fas fa-circle text-success"
    THEN "connected"
    ELSE IF statusText = "Backend offline - Demo mode only"
            /\ statusIcon = "fas fa-circle text-error"
    THEN "offline"
    ELSE "none"

\* C18: the status signal is checking while checkBackendConnection runs; once
\* it has finished the signal is connected exactly when activeBackendUrl is
\* non-null and offline exactly when it is null, and no later step brings
\* checking back.
C18_StatusSignal ==
    /\ [](resolver.pc = "awaiting" => Signal = "checking")
    /\ [](resolver.pc = "done"
            => /\ Signal \in { "connected", "offline" }
               /\ (Signal = "connected") = (activeBackendUrl # Null)
               /\ (Signal = "offline") = (activeBackendUrl = Null))
    /\ [][ resolver.pc = "done" => (resolver'.pc = "done" /\ Signal' = Signal) ]_vars

\* Witness of C18: the resolver ended offline and the signal still says so
\* after an analysis in demo mode.
C18_Witness ==
    /\ resolver.pc = "done"
    /\ activeBackendUrl = Null
    /\ Signal = "offline"
    /\ Entered
    /\ last.path = "demo"

\* C19: an analysis of non-empty content entered while checkBackendConnection
\* has not finished reads activeBackendUrl as null: it sends no POST, renders
\* the Report of getDemoAnalysis and shows the demo-mode notice, whatever the
\* candidates would answer; a POST is outstanding or sent only once the
\* resolver has finished and stored an endpoint.
C19_AnalysisDuringProbing ==
    script = "enhanced"
        => /\ (Entered /\ resolver.pc # "done" /\ last.content # << >>)
                => /\ last.path = "demo"
                   /\ ~last.posted
                   /\ inflight = << >>
                   /\ SansTimestamp(last.data) = Synthesized(last.content)
                   /\ dom = displayReport(last.data)
                   /\ last.notice = DemoNotice
                   /\ notifications # << >>
                   /\ notifications[Len(notifications)] = DemoNotice
           /\ ((Entered /\ last.posted) \/ inflight # << >>)
                => /\ resolver.pc = "done"
                   /\ activeBackendUrl # Null

\* Witness of C19: the demo text was analysed in demo mode while the probe of
\* the third candidate, which is up, was awaited.
C19_Witness ==
    /\ last.op = "demo"
    /\ last.path = "demo"
    /\ resolver = [ pc |-> "awaiting", idx |-> 3 ]
    /\ reach[3] = "ok"
    /\ activeBackendUrl = Null
    /\ last.content = DemoContent
    /\ inflight = << >>

\* The resolver then ended connected with that Report still on screen and no
\* call made.
C19_WitnessLater ==
    /\ resolver.pc = "done"
    /\ Signal = "connected"
    /\ inflight = << >>
    /\ ~resultsHidden
    /\ dom = displayReport(getDemoAnalysis(DemoContent, 0))
    /\ notifications = << DemoNotice >>

\* C20: the raw score getDemoAnalysis computes lies between 20 and 85, so the
\* risk_score it reports is the raw score itself, untouched by the cap at 95,
\* and lies in 0..100 with no lower clamp.
C20_RawScoreRange ==
    Returned
        => /\ rawScore(last.content) \in 20..85
           /\ RawScore(last.content) \in 20..85
           /\ last.data.analysis_summary.risk_score = rawScore(last.content)
           /\ last.data.analysis_summary.risk_score \in 0..100

\* Witness of C20: the empty text is given the least score, 20.
C20_Witness ==
    /\ Returned
    /\ last.content = << >>
    /\ rawScore(last.content) = 20
    /\ last.data.analysis_summary.risk_score = 20

====
